---------------------------- MODULE Spec2Model ----------------------------
(***************************************************************************)
(* Schema-driven spreadsheet population (price-list repository).           *)
(*                                                                         *)
(* The module models the two copies of the population command,             *)
(* libs/prepare-list.py (the one app.py's /api/generate runs) and          *)
(* prepare-lists/prepare-list.py: the header locator, the expression       *)
(* evaluators, the per-row write loop, the lookup enrichment and the       *)
(* per-document loop.                                                      *)
(*                                                                         *)
(* Text is a sequence of one-character strings, so that strip(), lower(),  *)
(* upper(), split("*", 1), float() and the regular expression are          *)
(* computed on characters as the code computes them.  Numbers are exact    *)
(* rationals n/d (floating-point rounding is not modelled).                *)
(***************************************************************************)
EXTENDS Integers, Sequences, FiniteSets, TLC

VARIABLES
    \* --- the evaluator harness (specification SpecEval)
    ev_pc,        \* "idle" | "ready" | "done"
    ev_impl,      \* which copy evaluated: "libs" | "pl"
    ev_expr,      \* the dfcolumnname text handed to the evaluator
    ev_shape,     \* how ev_expr was put together (its parts, for the claims)
    ev_row,       \* the result row (field name -> value)
    ev_out,       \* the value the copy computed for the cell
    \* --- the inputs of a run of the population command (specification Spec)
    impl,         \* the copy that runs: "libs" | "pl"
    docs,         \* the Excel files under the input root, in sorted order
    schema_file,  \* the schema file on disk: "ok" | "missing" | "unparseable"
    schemas,      \* the schema file's content: a list of entries
    df_rows,      \* the rows of the result set, in the query's order
    lookup_map,   \* the lookup index (libs only), key -> [partid, description]
    \* --- the state of the run
    pc,           \* "idle" | "start" | "file" | "locate" | "row" | "save" | "done"
                  \* | "crashed" | "exit3" | "aborted"
    di,           \* index in docs of the file being processed
    ws,           \* the open worksheet: [vals, maxcol]
    header_row,   \* the located header row, 0 for None
    best_score,   \* the best score of the header scan
    col_map,      \* columnname -> column index
    write_row,    \* the cursor
    ri,           \* index in df_rows of the row being written
    ci,           \* index of the next descriptor of that row
    status,       \* per file: "Unmatched" | "Opened" | "HeaderLocated" | "Populating" | "Saved"
    copied,       \* the files copied to the output root
    nsaves,       \* per file: how many times wb.save ran to completion
    result        \* per file: the worksheet wb.save wrote, with the column map
                  \* and the cursor of that moment

evVars == <<ev_pc, ev_impl, ev_expr, ev_shape, ev_row, ev_out>>
inVars == <<impl, docs, schema_file, schemas, df_rows, lookup_map>>
runVars == <<pc, di, ws, header_row, best_score, col_map, write_row, ri, ci,
             status, copied, nsaves, result>>

-----------------------------------------------------------------------------
(* Values: Python's None, float('nan'), a number n/d, or text.             *)

None == [t |-> "none", n |-> 0, d |-> 1, s |-> <<>>]
NaN  == [t |-> "nan",  n |-> 0, d |-> 1, s |-> <<>>]
Str(s) == [t |-> "str", n |-> 0, d |-> 1, s |-> s]
\* not a value: an exception that nothing caught
Raised == [t |-> "raise", n |-> 0, d |-> 1, s |-> <<>>]

Abs(x) == IF x < 0 THEN -x ELSE x

RECURSIVE Gcd(_, _)
Gcd(a, b) == IF b = 0 THEN a ELSE Gcd(b, a % b)

\* the number n/d in lowest terms, d > 0
Num(n, d) ==
    LET g == Gcd(Abs(n), Abs(d))
        sg == IF d < 0 THEN -1 ELSE 1
    IN [t |-> "num", n |-> sg * (n \div g), d |-> sg * (d \div g), s |-> <<>>]

IsNum(v) == v.t = "num"
IsZero(v) == v.t = "num" /\ v.n = 0

\* the outcomes of the evaluators that stand for "no value": None, and the NaN
\* pandas puts in a row for a NULL of a numeric column (pd.isna is true of both)
IsAbsent(v) == v.t \in {"none", "nan"}

\* float arithmetic; NaN is contagious, and dividing by zero raises
\* ZeroDivisionError
Arith(op, a, b) ==
    IF a.t = "nan" \/ b.t = "nan" THEN NaN
    ELSE IF op = "/" /\ b.n = 0 THEN Raised
    ELSE CASE op = "*" -> Num(a.n * b.n, a.d * b.d)
           [] op = "/" -> Num(a.n * b.d, a.d * b.n)
           [] op = "+" -> Num(a.n * b.d + b.n * a.d, a.d * b.d)
           [] op = "-" -> Num(a.n * b.d - b.n * a.d, a.d * b.d)

-----------------------------------------------------------------------------
(* Text *)

Digits == {"0", "1", "2", "3", "4", "5", "6", "7", "8", "9"}
DigitSeq == <<"0", "1", "2", "3", "4", "5", "6", "7", "8", "9">>
DigitVal(c) == (CHOOSE i \in 1..10 : DigitSeq[i] = c) - 1

UpperChars == <<"A","B","C","D","E","F","G","H","I","J","K","L","M",
                "N","O","P","Q","R","S","T","U","V","W","X","Y","Z">>
LowerChars == <<"a","b","c","d","e","f","g","h","i","j","k","l","m",
                "n","o","p","q","r","s","t","u","v","w","x","y","z">>

LowerChar(c) ==
    IF \E i \in 1..26 : UpperChars[i] = c
    THEN LowerChars[CHOOSE i \in 1..26 : UpperChars[i] = c] ELSE c
UpperChar(c) ==
    IF \E i \in 1..26 : LowerChars[i] = c
    THEN UpperChars[CHOOSE i \in 1..26 : LowerChars[i] = c] ELSE c

Lower(s) == [i \in 1..Len(s) |-> LowerChar(s[i])]
Upper(s) == [i \in 1..Len(s) |-> UpperChar(s[i])]

IsSpace(c) == c = " "

SetMin(S) == CHOOSE x \in S : \A y \in S : x <= y
SetMax(S) == CHOOSE x \in S : \A y \in S : x >= y

\* str.strip()
Strip(s) ==
    LET ink == {i \in 1..Len(s) : ~IsSpace(s[i])}
    IN IF ink = {} THEN <<>> ELSE SubSeq(s, SetMin(ink), SetMax(ink))

RECURSIVE DigitsValue(_)
DigitsValue(s) ==
    IF s = <<>> THEN 0
    ELSE 10 * DigitsValue(SubSeq(s, 1, Len(s) - 1)) + DigitVal(s[Len(s)])

RECURSIVE Pow10(_)
Pow10(k) == IF k = 0 THEN 1 ELSE 10 * Pow10(k - 1)

\* float(text): surrounding blanks, an optional sign, digits with at most one
\* point and at least one digit.  [ok |-> FALSE] is ValueError.  (Exponents,
\* "inf", "nan" and "_" separators are not formed by the texts of this model.)
ParseFloat(s) ==
    LET t == Strip(s)
        signed == Len(t) > 0 /\ t[1] \in {"+", "-"}
        sg == IF Len(t) > 0 /\ t[1] = "-" THEN -1 ELSE 1
        u == IF signed THEN Tail(t) ELSE t
        dots == {i \in 1..Len(u) : u[i] = "."}
        ok == /\ \A i \in 1..Len(u) : u[i] \in Digits \cup {"."}
              /\ Cardinality(dots) <= 1
              /\ \E i \in 1..Len(u) : u[i] \in Digits
        dp == IF dots = {} THEN Len(u) + 1 ELSE CHOOSE i \in dots : TRUE
        ip == SubSeq(u, 1, dp - 1)
        fp == SubSeq(u, dp + 1, Len(u))
    IN IF ok THEN [ok |-> TRUE, v |-> Num(sg * DigitsValue(ip \o fp), Pow10(Len(fp)))]
       ELSE [ok |-> FALSE, v |-> None]

\* float(value): TypeError for None, ValueError for text that is no number
FloatOf(v) ==
    CASE v.t = "num" -> [ok |-> TRUE, v |-> v]
      [] v.t = "nan" -> [ok |-> TRUE, v |-> NaN]
      [] v.t = "str" -> ParseFloat(v.s)
      [] OTHER -> [ok |-> FALSE, v |-> None]

\* expr_re.search(expr), expr_re = \[([^\]]+)\](?:\s*([*/+-])\s*([0-9.]+))?
\* The leftmost "[" that has a non-empty run of non-"]" characters closed by a
\* "]"; then, if present, an operator and a run of digits and points.  op and
\* num are <<>> when the optional group did not take part (None in Python).
ExprMatch(expr) ==
    LET n == Len(expr)
        Close(i) == LET js == {j \in (i + 1)..n : expr[j] = "]"}
                    IN IF js = {} THEN 0 ELSE SetMin(js)
        starts == {i \in 1..n : expr[i] = "[" /\ Close(i) > i + 1}
        Skip(i) == LET ks == {k \in i..n : ~IsSpace(expr[k])}
                   IN IF ks = {} THEN n + 1 ELSE SetMin(ks)
        RunEnd(b) == LET ks == {k \in b..n : expr[k] \notin Digits \cup {"."}}
                     IN IF ks = {} THEN n ELSE SetMin(ks) - 1
    IN IF starts = {}
       THEN [found |-> FALSE, cat |-> <<>>, op |-> <<>>, num |-> <<>>]
       ELSE LET i == SetMin(starts)
                j == Close(i)
                a == Skip(j + 1)
                hasOp == a <= n /\ expr[a] \in {"*", "/", "+", "-"}
                b == Skip(a + 1)
                e == RunEnd(b)
                hasNum == hasOp /\ b <= n /\ e >= b
            IN [found |-> TRUE,
                cat |-> SubSeq(expr, i + 1, j - 1),
                op |-> IF hasNum THEN <<expr[a]>> ELSE <<>>,
                num |-> IF hasNum THEN SubSeq(expr, b, e) ELSE <<>>]

\* text.split("*", 1): the parts before and after the first "*"
SplitStar(s) ==
    LET k == SetMin({i \in 1..Len(s) : s[i] = "*"})
    IN [left |-> SubSeq(s, 1, k - 1), right |-> SubSeq(s, k + 1, Len(s))]

HasStar(s) == \E i \in 1..Len(s) : s[i] = "*"

\* the text "[c]"
Bracket(c) == <<"[">> \o c \o <<"]">>

-----------------------------------------------------------------------------
(* The expression evaluators.  A result row is a function from its field   *)
(* names (lowercase: the drivers lowercase the frame's columns) to values. *)

\* pd.isna(val)
IsNa(v) == v.t \in {"none", "nan"}

\* a resolution that reads a missing category as 0 instead of None
CatValue_m(cat, row) ==
    IF cat \in DOMAIN row THEN row[cat]
    ELSE IF Lower(cat) \in DOMAIN row THEN row[Lower(cat)]
    ELSE IF Upper(cat) \in DOMAIN row THEN row[Upper(cat)]
    ELSE Num(0, 1)

\* the bracketed category resolved against the row: exact, then lowercase,
\* then uppercase; None when no casing is a field of the row
CatValue(cat, row) ==
    IF cat \in DOMAIN row THEN row[cat]
    ELSE IF Lower(cat) \in DOMAIN row THEN row[Lower(cat)]
    ELSE IF Upper(cat) \in DOMAIN row THEN row[Upper(cat)]
    ELSE None

CatHit(cat, row) ==
    cat \in DOMAIN row \/ Lower(cat) \in DOMAIN row \/ Upper(cat) \in DOMAIN row

\* an eval_expr whose arithmetic is outside any try: the exceptions of float()
\* and of the division leave the evaluator
eval_expr_m(expr, row) ==
    IF expr \in DOMAIN row THEN row[expr]
    ELSE IF Lower(expr) \in DOMAIN row THEN row[Lower(expr)]
    ELSE LET m == ExprMatch(expr) IN
         IF ~m.found THEN None
         ELSE LET val == CatValue(m.cat, row) IN
              IF IsNa(val) THEN None
              ELSE IF m.op # <<>> /\ m.num # <<>>
                   THEN LET numf == ParseFloat(m.num)
                            fv == FloatOf(val)
                        IN IF ~numf.ok \/ ~fv.ok THEN Raised
                           ELSE Arith(m.op[1], fv.v, numf.v)
                   ELSE val

\* eval_expr: both files define it; only prepare-lists/prepare-list.py calls it
eval_expr(expr, row) ==
    IF expr \in DOMAIN row THEN row[expr]
    ELSE IF Lower(expr) \in DOMAIN row THEN row[Lower(expr)]
    ELSE LET m == ExprMatch(expr) IN
         IF ~m.found THEN None
         ELSE LET val == CatValue(m.cat, row) IN
              IF IsNa(val) THEN None
              ELSE IF m.op # <<>> /\ m.num # <<>>
                   THEN LET numf == ParseFloat(m.num)
                            fv == FloatOf(val)
                        IN \* ValueError, TypeError and ZeroDivisionError all
                           \* end in "except Exception: return val"
                           IF ~numf.ok \/ ~fv.ok THEN val
                           ELSE IF m.op[1] = "/" /\ IsZero(numf.v) THEN val
                           ELSE Arith(m.op[1], fv.v, numf.v)
                   ELSE val

\* get_value of libs/prepare-list.py: the match's operator and number are not read
get_value(expr, row) ==
    IF expr = <<>> THEN None
    ELSE IF expr \in DOMAIN row THEN row[expr]
    ELSE IF Lower(expr) \in DOMAIN row THEN row[Lower(expr)]
    ELSE LET m == ExprMatch(expr)
             f == ParseFloat(expr)
         IN IF m.found /\ CatHit(m.cat, row) THEN CatValue(m.cat, row)
            ELSE IF f.ok THEN f.v ELSE None

\* a guard that forgets the zero: "rval is None"
InNoneZero_m(v) == v.t = "none"

\* "rval in (None, 0)": equality with None or with 0
InNoneZero(v) == v.t = "none" \/ IsZero(v)

\* libs/prepare-list.py, the value of a descriptor whose dfcolumnname is not empty
LibsValue(dfield, row) ==
    LET dfield_l == Strip(dfield) IN
    IF HasStar(dfield_l)
    THEN LET parts == SplitStar(dfield_l)
             lval == get_value(Strip(parts.left), row)
             lit == ParseFloat(Strip(parts.right))
             rval == IF lit.ok THEN lit.v ELSE get_value(Strip(parts.right), row)
             fl == FloatOf(lval)
             fr == FloatOf(rval)
         IN IF lval.t = "none" \/ InNoneZero(rval) THEN None
            ELSE IF ~fl.ok \/ ~fr.ok THEN None
            ELSE Arith("*", fl.v, fr.v)
    ELSE get_value(dfield_l, row)

T_rtl1 == <<"r","t","l","-","1">>
T_qty == <<"q","t","y">>
T_zz == <<"z","z">>
T_qty2 == <<"q","t","y","*","2">>
T_partid == <<"p","a","r","t","i","d">>
T_sku == <<"s","k","u">>
T_description == <<"d","e","s","c","r","i","p","t","i","o","n">>
T_effective_date == <<"e","f","f","e","c","t","i","v","e","_","d","a","t","e">>

\* prow.get(name): None when the row has no such field
RowGet(row, name) == IF name \in DOMAIN row THEN row[name] ELSE None

\* prepare-lists/prepare-list.py, the value of a descriptor whose dfcolumnname
\* is not empty
PLValue(dfield, row) ==
    LET dfield_l == Strip(dfield) IN
    IF dfield_l \in {T_partid, T_sku, T_description, T_effective_date}
    THEN RowGet(row, dfield_l)
    ELSE eval_expr(dfield_l, row)

-----------------------------------------------------------------------------
(* The worksheet.  openpyxl keeps the cells that exist; max_column is the  *)
(* largest column of an existing cell (1 for an empty sheet).  Here a      *)
(* sheet is the value of every cell of a bounded grid plus max_column.     *)

MaxDocs == 2       \* Excel files under the input root
MaxRows == 2       \* rows of the result set
MaxStart == 2      \* largest starting_row of a schema entry

MaxOf(a, b) == IF a >= b THEN a ELSE b

RECURSIVE NatText(_)
NatText(n) ==
    IF n < 10 THEN <<DigitSeq[n + 1]>>
    ELSE NatText(n \div 10) \o <<DigitSeq[(n % 10) + 1]>>

\* the decimal digits of r/d (r < d), at most k of them
RECURSIVE FracText(_, _, _)
FracText(r, d, k) ==
    IF r = 0 \/ k = 0 THEN <<>>
    ELSE <<DigitSeq[((10 * r) \div d) + 1]>> \o FracText((10 * r) % d, d, k - 1)

\* str(value) of a cell or field value: 90.0 -> "90.0", 0.9 -> "0.9"
PyStr(v) ==
    CASE v.t = "str" -> v.s
      [] v.t = "none" -> <<"N","o","n","e">>
      [] v.t = "nan" -> <<"n","a","n">>
      [] v.t = "num" ->
           LET a == Abs(v.n)
               fr == FracText(a % v.d, v.d, 16)
           IN (IF v.n < 0 THEN <<"-">> ELSE <<>>) \o NatText(a \div v.d)
              \o <<".">> \o (IF fr = <<>> THEN <<"0">> ELSE fr)

\* a write that assigns the value even when it is None (clearing the cell)
CellWrite_m(sheet, r, c, v) ==
    [vals |-> [sheet.vals EXCEPT ![<<r, c>>] = v],
     maxcol |-> MaxOf(sheet.maxcol, c)]

\* ws.cell(row=r, column=c, value=v): the cell comes to exist, and its value is
\* set only when v is not None (openpyxl: "if value is not None: cell.value = value")
CellWrite(sheet, r, c, v) ==
    [vals |-> IF v.t = "none" THEN sheet.vals
              ELSE [sheet.vals EXCEPT ![<<r, c>>] = v],
     maxcol |-> MaxOf(sheet.maxcol, c)]

\* [str(cell.value).strip() if cell.value is not None else "" for cell in ws[r]]
CellStr(v) == IF v.t = "none" THEN <<>> ELSE Strip(PyStr(v))
RowVals(sheet, r) == [c \in 1..sheet.maxcol |-> CellStr(sheet.vals[<<r, c>>])]

-----------------------------------------------------------------------------
(* The header locator *)

\* the score of row r: the descriptors whose stripped columnname is among the
\* row's cell texts
Score(sheet, r, columns) ==
    LET row_vals == RowVals(sheet, r)
    IN Cardinality({i \in 1..Len(columns) :
                      \E c \in 1..sheet.maxcol :
                          row_vals[c] = Strip(columns[i].columnname)})

\* a comparison that lets a later row with an equal score take over
Better_m(score, best) == score >= best

\* "if score > best_score": does row r, with this score, replace the best so far
Better(score, best) == score > best

\* for r in range(1, starting_row + 1): the best row so far and its score
RECURSIVE ScanHeader(_, _, _, _, _)
ScanHeader(sheet, columns, r, last, acc) ==
    IF r > last THEN acc
    ELSE LET score == Score(sheet, r, columns)
         IN ScanHeader(sheet, columns, r + 1, last,
                       IF Better(score, acc.best_score)
                       THEN [best_score |-> score, header_row |-> r]
                       ELSE acc)

\* header_row = None (0 here) and best_score = -1 before the scan
HeaderScan(sheet, starting_row, columns) ==
    ScanHeader(sheet, columns, 1, starting_row, [best_score |-> -1, header_row |-> 0])

\* a test that accepts a header row in which no name was found
HeaderFound_m(hr, best) == hr # 0 /\ best >= 0

\* "if header_row is not None and best_score > 0"
HeaderFound(hr, best) == hr # 0 /\ best > 0

\* a map in which the first cell that holds a name keeps it
HeaderMap_m(sheet, columns, hr) ==
    LET row_vals == RowVals(sheet, hr)
        Hits(name) == {idx \in 1..sheet.maxcol : row_vals[idx] = Strip(name)}
        names == {columns[i].columnname : i \in 1..Len(columns)}
    IN [name \in {k \in names : Hits(k) # {}} |-> SetMin(Hits(name))]

\* the map built from the header row: the cells are scanned left to right and
\* a later cell overwrites an earlier one
HeaderMap(sheet, columns, hr) ==
    LET row_vals == RowVals(sheet, hr)
        Hits(name) == {idx \in 1..sheet.maxcol : row_vals[idx] = Strip(name)}
        names == {columns[i].columnname : i \in 1..Len(columns)}
    IN [name \in {k \in names : Hits(k) # {}} |-> SetMax(Hits(name))]

\* the fallback: the i-th descriptor at column i
PositionalMap(columns) ==
    LET names == {columns[i].columnname : i \in 1..Len(columns)}
    IN [name \in names |->
           SetMax({i \in 1..Len(columns) : columns[i].columnname = name})]

\* a map that is not emptied for a new file: the entries of the file before stay
BuildColMap_m(sheet, columns, hr, best) ==
    (IF HeaderFound(hr, best) THEN HeaderMap(sheet, columns, hr)
     ELSE PositionalMap(columns)) @@ col_map

BuildColMap(sheet, columns, hr, best) ==
    IF HeaderFound(hr, best) THEN HeaderMap(sheet, columns, hr)
    ELSE PositionalMap(columns)

-----------------------------------------------------------------------------
(* The lookup index and the enrichment of a written row (libs only) *)

key_idx == 1
partid_col_idx == 2
desc_col_idx == 3

\* one row of the lookup CSV: the values of "Part #", of the part-id column and
\* of "Description" as row.get returns them (None for a column the file lacks)
LookupEntry(row) ==
    [partid |-> Strip(PyStr(row.partid)), description |-> Strip(PyStr(row.desc))]

\* "if not raw_key: continue"
HasKey(row) == row.key.t = "str" /\ row.key.s # <<>>

\* lookup_map after reading the CSV rows in order: a later row replaces an
\* earlier one with the same stripped key
RECURSIVE LoadLookup(_)
LoadLookup(csv) ==
    IF csv = <<>> THEN <<>>
    ELSE LET last == csv[Len(csv)]
             rest == LoadLookup(SubSeq(csv, 1, Len(csv) - 1))
         IN IF HasKey(last)
            THEN (Strip(last.key.s) :> LookupEntry(last)) @@ rest
            ELSE rest

\* Python truth of a field value, for "prow.get('partid') or ''"
Truthy(v) ==
    CASE v.t = "none" -> FALSE
      [] v.t = "str" -> v.s # <<>>
      [] v.t = "num" -> v.n # 0
      [] OTHER -> TRUE

\* a key that is only ever read from the cell
EnrichKey_m(sheet, row, wr) ==
    LET cell_val == sheet.vals[<<wr, key_idx>>]
    IN IF cell_val.t = "none" THEN <<>> ELSE Strip(PyStr(cell_val))

\* key_val: the text of the cell in column key_idx of the row just written, or,
\* when that is empty, the row's partid field; <<>> when both are empty
EnrichKey(sheet, row, wr) ==
    LET cell_val == sheet.vals[<<wr, key_idx>>]
        from_cell == IF cell_val.t = "none" THEN <<>> ELSE Strip(PyStr(cell_val))
    IN IF from_cell # <<>> THEN from_cell
       ELSE IF T_partid \in DOMAIN row
            THEN Strip(IF Truthy(row[T_partid]) THEN PyStr(row[T_partid]) ELSE <<>>)
            ELSE <<>>

\* an enrichment that leaves the description cell as the expressions wrote it
Enrich_m(sheet, row, wr, lookup) ==
    LET key == EnrichKey(sheet, row, wr)
        read == [sheet EXCEPT !.maxcol = MaxOf(@, key_idx)]
    IN IF key # <<>> /\ key \in DOMAIN lookup
       THEN CellWrite(read, wr, partid_col_idx, Str(lookup[key].partid))
       ELSE read

\* an enrichment that also writes the key it used into the key column
Enrich_k(sheet, row, wr, lookup) ==
    LET key == EnrichKey(sheet, row, wr)
        read == [sheet EXCEPT !.maxcol = MaxOf(@, key_idx)]
    IN IF key # <<>> /\ key \in DOMAIN lookup
       THEN CellWrite(CellWrite(CellWrite(read, wr, key_idx, Str(key)),
                                wr, partid_col_idx, Str(lookup[key].partid)),
                      wr, desc_col_idx, Str(lookup[key].description))
       ELSE read

\* an enrichment that, finding no record, writes the key as the part id
Enrich_d(sheet, row, wr, lookup) ==
    LET key == EnrichKey(sheet, row, wr)
        read == [sheet EXCEPT !.maxcol = MaxOf(@, key_idx)]
    IN IF key # <<>> /\ key \in DOMAIN lookup
       THEN CellWrite(CellWrite(read, wr, partid_col_idx, Str(lookup[key].partid)),
                      wr, desc_col_idx, Str(lookup[key].description))
       ELSE IF key # <<>> THEN CellWrite(read, wr, partid_col_idx, Str(key))
       ELSE read

\* the enrichment of the row at wr, after all of its descriptor writes
Enrich(sheet, row, wr, lookup) ==
    LET key == EnrichKey(sheet, row, wr)
        read == [sheet EXCEPT !.maxcol = MaxOf(@, key_idx)]
    IN IF key # <<>> /\ key \in DOMAIN lookup
       THEN CellWrite(CellWrite(read, wr, partid_col_idx, Str(lookup[key].partid)),
                      wr, desc_col_idx, Str(lookup[key].description))
       ELSE read

-----------------------------------------------------------------------------
(* The inputs of a run: templates, schema entries, result rows, lookup CSV *)

N_part == <<"P","a","r","t"," ","#">>
N_pid == <<"P","a","r","t"," ","I","D">>
N_desc == <<"D","e","s","c","r","i","p","t","i","o","n">>
N_price == <<"P","r","i","c","e">>
N_sku == <<"S","K","U">>
N_qty == <<"Q","t","y">>

Cell(r, c, txt) == [r |-> r, c |-> c, txt |-> txt]

\* a header in row 1 and a value left in the first data row
TplA == [cells |-> { Cell(1, 1, N_part), Cell(1, 2, N_pid), Cell(1, 3, N_desc),
                     Cell(1, 4, N_price), Cell(2, 2, <<"k","e","e","p">>) },
         maxcol |-> 4]
\* a title row, then a header whose first column is the description
TplB == [cells |-> { Cell(1, 1, <<"L","i","s","t">>), Cell(2, 1, N_desc),
                     Cell(2, 2, <<" ">> \o N_price \o <<" ">>) },
         maxcol |-> 2]
\* an empty sheet
TplC == [cells |-> {}, maxcol |-> 1]
Templates == <<TplA, TplB, TplC>>

Col(name, expr) == [columnname |-> name, dfcolumnname |-> expr]

ColsA == << Col(N_part, T_sku), Col(N_pid, <<>>), Col(N_desc, T_description),
            Col(N_price, Bracket(<<"R","T","L","-","1">>) \o <<"/","0",".","9">>) >>
ColsB == << Col(N_sku, T_sku), Col(N_qty, <<>>),
            Col(N_price, Bracket(<<"R","T","L","-","1">>) \o <<" ","*"," ","2">>) >>
ColsC == << Col(N_desc, <<>>), Col(N_price, <<"q","t","y"," ","*"," ","0">>),
            Col(N_pid, T_partid) >>
ColumnSets == {ColsA, ColsB, ColsC}

TplWidth == SetMax({Templates[i].maxcol : i \in 1..Len(Templates)})
MaxDescriptors == SetMax({Len(cs) : cs \in ColumnSets})
GridRows == MaxStart + MaxRows
GridCols == TplWidth + MaxDescriptors
Grid == (1..GridRows) \X (1..GridCols)

\* load_workbook(dest).active for a copy of the template
SheetOf(tpl) ==
    [vals |-> [p \in Grid |->
                 IF \E x \in tpl.cells : x.r = p[1] /\ x.c = p[2]
                 THEN Str((CHOOSE x \in tpl.cells : x.r = p[1] /\ x.c = p[2]).txt)
                 ELSE None],
     maxcol |-> tpl.maxcol]

NoSheet == [vals |-> [p \in Grid |-> None], maxcol |-> 1]

\* nothing saved yet
NoResult == [sheet |-> NoSheet, col_map |-> <<>>, write_row |-> 0]

ResultRow(partid, sku, description, price, qty) ==
    (T_partid :> partid) @@ (T_sku :> sku) @@ (T_description :> description)
    @@ (<<"r","t","l","-","1">> :> price) @@ (<<"q","t","y">> :> qty)

RowPool ==
    << ResultRow(Str(<<"P","1">>), Str(<<"S","1">>), Str(<<"U","N","K","N","O","W","N">>),
                 Num(90, 1), Num(5, 1)),
       ResultRow(Str(<<"P","2">>), None, None, NaN, Num(0, 1)),
       ResultRow(None, Str(<<"S","3">>), Str(<<"d">>), None, NaN) >>

\* the result set: up to MaxRows consecutive rows of the pool, from any start
ResultSets ==
    { [j \in 1..m |-> RowPool[((k + j - 2) % Len(RowPool)) + 1]]
      : k \in 1..Len(RowPool), m \in 0..MaxRows }

CsvRow(key, partid, desc) == [key |-> key, partid |-> partid, desc |-> desc]
LookupCsvs ==
    { <<>>,
      << CsvRow(Str(<<" ","S","1"," ">>), Str(<<"A","1">>),
                Str(<<"A","l","p","h","a"," ","C","o","r","e">>)),
         CsvRow(Str(<<"P","2">>), None, Str(<<"B","e","t","a">>)),
         CsvRow(Str(<<>>), Str(<<"x">>), Str(<<"x">>)) >> }

FileName(i) == <<"f">> \o NatText(i) \o <<".","x","l","s","x">>

-----------------------------------------------------------------------------
(* The run of the population command *)

\* the harness at rest
EvIdle ==
    /\ ev_pc = "idle"
    /\ ev_impl = "none"
    /\ ev_expr = <<>>
    /\ ev_shape = [kind |-> "raw", f |-> <<>>, g |-> <<>>, op |-> "", k |-> None]
    /\ ev_row = (T_qty :> None)
    /\ ev_out = None

RunIdle ==
    /\ impl = "none" /\ docs = <<>> /\ schema_file = "none" /\ schemas = <<>>
    /\ df_rows = <<>>
    /\ lookup_map = <<>>
    /\ pc = "idle" /\ di = 0 /\ ws = NoSheet /\ header_row = 0 /\ best_score = -1
    /\ col_map = <<>> /\ write_row = 0 /\ ri = 0 /\ ci = 0
    /\ status = <<>> /\ copied = {} /\ nsaves = <<>> /\ result = <<>>

\* the state before the schema file is read (line 138): the lookup index is
\* loaded, the files and the result set are what the run will find
RunInit ==
    /\ impl \in {"libs", "pl"}
    /\ \E t \in 1..Len(Templates), step \in 0..1 :
          \* every file a copy of the first template, or each of another one
          /\ step = 0 => t = 1
          /\ docs = [i \in 1..MaxDocs |->
                    [name |-> FileName(i),
                     tmpl |-> Templates[((t + step * (i - 1) - 1) % Len(Templates)) + 1]]]
    /\ schema_file \in {"ok", "missing", "unparseable"}
    /\ IF schema_file = "ok"
       THEN \E skip \in 0..1, sr \in 1..MaxStart, cs \in ColumnSets :
               schemas = [j \in 1..(MaxDocs - skip) |->
                            [filename |-> FileName(j + skip), starting_row |-> sr,
                             columns |-> cs]]
       ELSE schemas = <<>>
    /\ df_rows \in ResultSets
    /\ \E csv \in LookupCsvs : lookup_map = LoadLookup(csv)
    /\ pc = "start" /\ di = 1 /\ ws = NoSheet /\ header_row = 0 /\ best_score = -1
    /\ col_map = <<>> /\ write_row = 0 /\ ri = 0 /\ ci = 0
    /\ status = [i \in 1..MaxDocs |-> "Unmatched"]
    /\ copied = {}
    /\ nsaves = [i \in 1..MaxDocs |-> 0]
    /\ result = [i \in 1..MaxDocs |-> NoResult]
    /\ EvIdle

\* the schema file is read: a missing file ends main with exit code 3, a file
\* json.load cannot parse raises and nothing catches it
LoadSchema ==
    /\ pc = "start"
    /\ pc' = CASE schema_file = "ok" -> "file"
              [] schema_file = "missing" -> "exit3"
              [] OTHER -> "aborted"
    /\ UNCHANGED <<di, ws, header_row, best_score, col_map, write_row, ri, ci,
                   status, copied, nsaves, result>>
    /\ UNCHANGED <<inVars, evVars>>

\* rel_str = str(rel).replace("\\", "/")
RelStr(name) == [i \in 1..Len(name) |-> IF name[i] = "\\" THEN "/" ELSE name[i]]

\* a search that falls back to the first schema entry
MatchIndex_m(name) ==
    LET hits == {k \in 1..Len(schemas) : schemas[k].filename = RelStr(name)}
    IN IF hits = {} THEN (IF schemas = <<>> THEN 0 ELSE 1) ELSE SetMin(hits)

\* the index of the first schema entry whose filename is rel_str, 0 for None
MatchIndex(name) ==
    LET hits == {k \in 1..Len(schemas) : schemas[k].filename = RelStr(name)}
    IN IF hits = {} THEN 0 ELSE SetMin(hits)

\* match, starting_row and schema_columns of the file being processed
Match == schemas[MatchIndex(docs[di].name)]
starting_row == Match.starting_row
schema_columns == Match.columns

\* no schema entry: "continue"
SkipUnmatched ==
    /\ pc = "file" /\ di <= Len(docs)
    /\ MatchIndex(docs[di].name) = 0
    /\ di' = di + 1
    /\ UNCHANGED <<pc, ws, header_row, best_score, col_map, write_row, ri, ci,
                   status, copied, nsaves, result>>
    /\ UNCHANGED <<inVars, evVars>>

\* an open that keeps the worksheet of the file before instead of loading the copy
OpenDocument_m ==
    /\ pc = "file" /\ di <= Len(docs)
    /\ MatchIndex(docs[di].name) # 0
    /\ copied' = copied \cup {di}
    /\ ws' = IF ws = NoSheet THEN SheetOf(docs[di].tmpl) ELSE ws
    /\ status' = [status EXCEPT ![di] = "Opened"]
    /\ pc' = "locate"
    /\ UNCHANGED <<di, header_row, best_score, col_map, write_row, ri, ci, nsaves, result>>
    /\ UNCHANGED <<inVars, evVars>>

\* the file is copied to the output root and the copy is opened
OpenDocument ==
    /\ pc = "file" /\ di <= Len(docs)
    /\ MatchIndex(docs[di].name) # 0
    /\ copied' = copied \cup {di}
    /\ ws' = SheetOf(docs[di].tmpl)
    /\ status' = [status EXCEPT ![di] = "Opened"]
    /\ pc' = "locate"
    /\ UNCHANGED <<di, header_row, best_score, col_map, write_row, ri, ci, nsaves, result>>
    /\ UNCHANGED <<inVars, evVars>>

\* load_workbook raises (a corrupt or locked file): nothing catches it
OpenFails ==
    /\ pc = "file" /\ di <= Len(docs)
    /\ MatchIndex(docs[di].name) # 0
    /\ copied' = copied \cup {di}
    /\ pc' = "crashed"
    /\ UNCHANGED <<di, ws, header_row, best_score, col_map, write_row, ri, ci,
                   status, nsaves, result>>
    /\ UNCHANGED <<inVars, evVars>>

\* a locate step after which the file is saved without its rows being written
Locate_m ==
    /\ pc = "locate"
    /\ LET scan == HeaderScan(ws, starting_row, schema_columns)
       IN /\ header_row' = scan.header_row
          /\ best_score' = scan.best_score
          /\ col_map' = BuildColMap(ws, schema_columns, scan.header_row, scan.best_score)
    /\ write_row' = starting_row
    /\ ri' = 1 /\ ci' = 1
    /\ status' = [status EXCEPT ![di] = "HeaderLocated"]
    /\ pc' = "save"
    /\ UNCHANGED <<di, ws, copied, nsaves, result>>
    /\ UNCHANGED <<inVars, evVars>>

\* the header scan, the column map, and the cursor set to starting_row
Locate ==
    /\ pc = "locate"
    /\ LET scan == HeaderScan(ws, starting_row, schema_columns)
       IN /\ header_row' = scan.header_row
          /\ best_score' = scan.best_score
          /\ col_map' = BuildColMap(ws, schema_columns, scan.header_row, scan.best_score)
    /\ write_row' = starting_row
    /\ ri' = 1 /\ ci' = 1
    /\ status' = [status EXCEPT ![di] = "HeaderLocated"]
    /\ pc' = IF df_rows = <<>> THEN "save" ELSE "row"
    /\ UNCHANGED <<di, ws, copied, nsaves, result>>
    /\ UNCHANGED <<inVars, evVars>>

\* a value computed from the result set taken in reverse order
CellValue_rev(col, row) ==
    LET other == df_rows[Len(df_rows) + 1 - ri]
    IN IF impl = "libs"
       THEN (IF col.dfcolumnname = <<>> THEN None ELSE LibsValue(col.dfcolumnname, other))
       ELSE PLValue(col.dfcolumnname, other)

\* the value computed for a descriptor: libs writes None for an empty
\* dfcolumnname, prepare-lists never gets here with one
CellValue(col, row) ==
    IF impl = "libs"
    THEN (IF col.dfcolumnname = <<>> THEN None ELSE LibsValue(col.dfcolumnname, row))
    ELSE PLValue(col.dfcolumnname, row)

\* a resolution that does not record the appended position
Recorded_m(cm, cname, idx) == cm

\* col_map after the position of cname was resolved to idx
Recorded(cm, cname, idx) == IF cname \in DOMAIN cm THEN cm ELSE (cname :> idx) @@ cm

\* an append into the last used column instead of the one after it
ColIdx_m(cm, cname, sheet) == IF cname \in DOMAIN cm THEN cm[cname] ELSE sheet.maxcol

\* col_map.get(cname), or max_column + 1 for a name without a position
ColIdx(cm, cname, sheet) == IF cname \in DOMAIN cm THEN cm[cname] ELSE sheet.maxcol + 1

\* one descriptor of the current row: evaluate, resolve the column, write
WriteCell ==
    /\ pc = "row" /\ ci <= Len(schema_columns)
    /\ impl = "libs" \/ schema_columns[ci].dfcolumnname # <<>>
    /\ LET col == schema_columns[ci]
           val == CellValue(col, df_rows[ri])
           col_idx == ColIdx(col_map, col.columnname, ws)
       IN /\ col_map' = Recorded(col_map, col.columnname, col_idx)
          /\ ws' = CellWrite(ws, write_row, col_idx, val)
    /\ ci' = ci + 1
    /\ status' = [status EXCEPT ![di] = "Populating"]
    /\ UNCHANGED <<pc, di, header_row, best_score, write_row, ri, copied, nsaves, result>>
    /\ UNCHANGED <<inVars, evVars>>

\* prepare-lists: "if not dfield: continue"
SkipCell ==
    /\ pc = "row" /\ ci <= Len(schema_columns)
    /\ impl = "pl" /\ schema_columns[ci].dfcolumnname = <<>>
    /\ ci' = ci + 1
    /\ status' = [status EXCEPT ![di] = "Populating"]
    /\ UNCHANGED <<pc, di, ws, header_row, best_score, col_map, write_row, ri,
                   copied, nsaves, result>>
    /\ UNCHANGED <<inVars, evVars>>

\* a cursor that does not move
NextCursor_m(w) == w

\* write_row += 1
NextCursor(w) == w + 1

\* libs: the row's descriptors are done; enrichment, then the cursor advances
EndRowLibs ==
    /\ pc = "row" /\ ci > Len(schema_columns)
    /\ impl = "libs"
    /\ ws' = Enrich(ws, df_rows[ri], write_row, lookup_map)
    /\ write_row' = NextCursor(write_row)
    /\ ri' = ri + 1 /\ ci' = 1
    /\ status' = [status EXCEPT ![di] = "Populating"]
    /\ pc' = IF ri = Len(df_rows) THEN "save" ELSE "row"
    /\ UNCHANGED <<di, header_row, best_score, col_map, copied, nsaves, result>>
    /\ UNCHANGED <<inVars, evVars>>

\* prepare-lists: the row's descriptors are done; the cursor advances
EndRowPL ==
    /\ pc = "row" /\ ci > Len(schema_columns)
    /\ impl = "pl"
    /\ write_row' = NextCursor(write_row)
    /\ ri' = ri + 1 /\ ci' = 1
    /\ status' = [status EXCEPT ![di] = "Populating"]
    /\ pc' = IF ri = Len(df_rows) THEN "save" ELSE "row"
    /\ UNCHANGED <<di, ws, header_row, best_score, col_map, copied, nsaves, result>>
    /\ UNCHANGED <<inVars, evVars>>

\* wb.save(dest), then the next file
Save ==
    /\ pc = "save"
    /\ status' = [status EXCEPT ![di] = "Saved"]
    /\ nsaves' = [nsaves EXCEPT ![di] = @ + 1]
    /\ result' = [result EXCEPT ![di] =
                     [sheet |-> ws, col_map |-> col_map, write_row |-> write_row]]
    /\ di' = di + 1
    /\ pc' = "file"
    /\ UNCHANGED <<ws, header_row, best_score, col_map, write_row, ri, ci, copied>>
    /\ UNCHANGED <<inVars, evVars>>

\* wb.save raises (the destination cannot be written): nothing catches it
SaveFails ==
    /\ pc = "save"
    /\ pc' = "crashed"
    /\ UNCHANGED <<di, ws, header_row, best_score, col_map, write_row, ri, ci,
                   status, copied, nsaves, result>>
    /\ UNCHANGED <<inVars, evVars>>

\* the loop over the files ends and main returns
Finish ==
    /\ pc = "file" /\ di > Len(docs)
    /\ pc' = "done"
    /\ UNCHANGED <<di, ws, header_row, best_score, col_map, write_row, ri, ci,
                   status, copied, nsaves, result>>
    /\ UNCHANGED <<inVars, evVars>>

-----------------------------------------------------------------------------
(* The evaluator harness: an expression text and a result row are drawn,   *)
(* and one of the two copies computes the cell value.                      *)

\* bracketed categories, each with the (lowercase) field it names
Cats ==
    { [txt |-> <<"R","T","L","-","1">>, f |-> T_rtl1],
      [txt |-> T_rtl1, f |-> T_rtl1],
      [txt |-> <<"Z","Z">>, f |-> T_zz] }

\* numeric literals, each with the number it denotes
Lits ==
    { [txt |-> <<"0",".","9">>, v |-> Num(9, 10)],
      [txt |-> <<"2">>, v |-> Num(2, 1)],
      [txt |-> <<"1","0">>, v |-> Num(10, 1)],
      [txt |-> <<"0">>, v |-> Num(0, 1)],
      [txt |-> <<"0",".","0">>, v |-> Num(0, 1)] }

Pads == { <<>>, <<" ">> }
Ops == {"*", "/", "+", "-"}

\* "[CAT]" and "[CAT] op k"
BracketInputs ==
    { [expr |-> Bracket(c.txt),
       shape |-> [kind |-> "bracket", f |-> c.f, g |-> <<>>, op |-> "", k |-> None]]
      : c \in Cats }
    \cup
    { [expr |-> Bracket(x[1].txt) \o x[2] \o <<x[3]>> \o x[4] \o x[5].txt,
       shape |-> [kind |-> "bracket", f |-> x[1].f, g |-> <<>>, op |-> x[3], k |-> x[5].v]]
      : x \in Cats \X Pads \X Ops \X Pads \X Lits }

\* the left and right sides of "left * right": a field reference (plain, in
\* another casing, bracketed, or naming no field) or, on the right, a literal
Lefts ==
    { [txt |-> T_qty, f |-> T_qty],
      [txt |-> <<"Q","T","Y">>, f |-> T_qty],
      [txt |-> Bracket(<<"R","T","L","-","1">>), f |-> T_rtl1],
      [txt |-> T_zz, f |-> T_zz] }
Rights ==
    { [txt |-> l.txt, g |-> <<>>, k |-> l.v] : l \in Lits }
    \cup
    { [txt |-> T_rtl1, g |-> T_rtl1, k |-> None],
      [txt |-> Bracket(<<"R","T","L","-","1">>), g |-> T_rtl1, k |-> None],
      [txt |-> T_zz, g |-> T_zz, k |-> None] }

ProductInputs ==
    { [expr |-> x[1].txt \o x[2] \o <<"*">> \o x[3] \o x[4].txt,
       shape |-> [kind |-> "product", f |-> x[1].f, g |-> x[4].g, op |-> "*", k |-> x[4].k]]
      : x \in Lefts \X Pads \X Pads \X Rights }

\* other texts: a plain field, a literal, malformed brackets, free text
RawTexts ==
    { T_qty, <<"Q","t","y">>, <<"5">>, <<"1",".","5">>, <<"[">>, <<"[","]">>,
      <<"[","q","t","y">>, <<"a","b","c">>, <<" ">>,
      Bracket(T_rtl1) \o <<"/","1",".","2",".","3">>,
      Bracket(T_rtl1) \o <<"/","x">> }
RawInputs ==
    { [expr |-> t,
       shape |-> [kind |-> "raw", f |-> <<>>, g |-> <<>>, op |-> "", k |-> None]]
      : t \in RawTexts }

\* products of more than two factors, and products whose right side is a
\* bracket reference with an operator: "qty*rtl-1*qty", "qty * [RTL-1]/2"
ChainInputs ==
    { [expr |-> T_qty \o p \o <<"*">> \o p \o T_rtl1 \o p \o <<"*">> \o p \o T_qty,
       shape |-> [kind |-> "chain", f |-> T_qty, g |-> T_rtl1, op |-> "*", k |-> None]]
      : p \in Pads }
    \cup
    { [expr |-> T_qty \o x[1] \o <<"*">> \o x[1] \o Bracket(<<"R","T","L","-","1">>)
                \o <<x[2]>> \o x[3].txt,
       shape |-> [kind |-> "prodop", f |-> T_qty, g |-> T_rtl1, op |-> x[2], k |-> x[3].v]]
      : x \in Pads \X {"/", "+"} \X {l \in Lits : l.v.n # 0} }

EvInputs == BracketInputs \cup ProductInputs \cup RawInputs \cup ChainInputs

\* result rows: a price that is a number, zero, None or NaN (or no price field),
\* a quantity likewise, and a text field
PriceVals == { Num(90, 1), Num(0, 1), None, NaN }
QtyVals == { Num(5, 1), Num(0, 1), None, NaN }
EvRows ==
    { (T_rtl1 :> x[1]) @@ (T_qty :> x[2]) @@ (T_sku :> Str(<<"A","B">>))
      : x \in PriceVals \X QtyVals }
    \cup
    { (T_qty :> q) @@ (T_sku :> Str(<<"A","B">>)) : q \in QtyVals }
    \cup
    \* a result set with a column named after the expression that made it
    { (T_qty :> q) @@ (T_qty2 :> Num(7, 1)) : q \in QtyVals }

EvInit ==
    /\ ev_pc = "ready"
    /\ ev_impl = "none"
    /\ \E i \in EvInputs : ev_expr = i.expr /\ ev_shape = i.shape
    /\ ev_row \in EvRows
    /\ ev_out = None
    /\ RunIdle

\* libs/prepare-list.py computes the cell value of the descriptor
EvalLibs ==
    /\ ev_pc = "ready"
    /\ ev_out' = LibsValue(ev_expr, ev_row)
    /\ ev_impl' = "libs"
    /\ ev_pc' = "done"
    /\ UNCHANGED <<ev_expr, ev_shape, ev_row>>
    /\ UNCHANGED <<inVars, runVars>>

\* prepare-lists/prepare-list.py computes the cell value of the descriptor
EvalPL ==
    /\ ev_pc = "ready"
    /\ ev_out' = PLValue(ev_expr, ev_row)
    /\ ev_impl' = "pl"
    /\ ev_pc' = "done"
    /\ UNCHANGED <<ev_expr, ev_shape, ev_row>>
    /\ UNCHANGED <<inVars, runVars>>

EvNext == EvalLibs \/ EvalPL

vars == <<evVars, inVars, runVars>>

SpecEval == EvInit /\ [][EvNext]_vars

\* the population command
Init == RunInit
Next ==
    \/ LoadSchema
    \/ SkipUnmatched \/ OpenDocument \/ OpenFails \/ Locate
    \/ WriteCell \/ SkipCell \/ EndRowLibs \/ EndRowPL
    \/ Save \/ SaveFails \/ Finish
Spec == Init /\ [][Next]_vars

\* the value of field f in the row, None when the row has no such field
FieldOf(row, f) == IF f \in DOMAIN row THEN row[f] ELSE None

-----------------------------------------------------------------------------
(* Claims about the evaluators (specification SpecEval) *)

\* C4: "[CAT]" followed by one operator op of * / + - and a literal k, CAT
\* resolving to a number v, evaluates to v op k; with no operator, to v.
\* (Stated for k # 0 under "/" and "*": a zero divisor has no quotient, and
\* "* 0" falls under the multiplicative guard of C6.)
C4_BracketOperatorApplied ==
    ( /\ ev_pc = "done"
      /\ ev_shape.kind = "bracket"
      /\ IsNum(FieldOf(ev_row, ev_shape.f))
      /\ ~(ev_shape.op \in {"/", "*"} /\ IsZero(ev_shape.k)) )
    => ev_out = IF ev_shape.op = "" THEN FieldOf(ev_row, ev_shape.f)
                ELSE Arith(ev_shape.op, FieldOf(ev_row, ev_shape.f), ev_shape.k)

\* C5: "[CAT]", with or without a trailing operator and literal, evaluates to
\* absent when CAT resolves to a null field or to no field of the row.
C5_AbsentBracketIsAbsent ==
    ( /\ ev_pc = "done"
      /\ ev_shape.kind = "bracket"
      /\ IsAbsent(FieldOf(ev_row, ev_shape.f)) )
    => IsAbsent(ev_out)

C5_Witness ==
    /\ ev_pc = "done"
    /\ ev_impl = "libs"
    /\ ev_shape.kind = "bracket"
    /\ ev_shape.op = "/"
    /\ T_rtl1 \in DOMAIN ev_row
    /\ ev_row[T_rtl1] = None
    /\ ev_shape.f = T_rtl1
    /\ ev_out = None

\* the two sides of a product as the row resolves them
LeftOf(shape, row) == FieldOf(row, shape.f)
RightOf(shape, row) == IF shape.g = <<>> THEN shape.k ELSE FieldOf(row, shape.g)

\* C6: in libs/prepare-list.py "left * right" is absent (never 0.0) when left
\* is absent, right is absent or right is 0, and is the product of the two
\* numbers otherwise.
C6_ProductGuard ==
    ( /\ ev_pc = "done"
      /\ ev_impl = "libs"
      /\ ev_shape.kind = "product" )
    => LET l == LeftOf(ev_shape, ev_row)
           r == RightOf(ev_shape, ev_row)
       IN IF IsAbsent(l) \/ IsAbsent(r) \/ IsZero(r)
          THEN IsAbsent(ev_out) /\ ~IsZero(ev_out)
          ELSE (IsNum(l) /\ IsNum(r)) => ev_out = Arith("*", l, r)

C6_Witness ==
    /\ ev_pc = "done"
    /\ ev_impl = "libs"
    /\ ev_expr = T_qty \o <<" ", "*", " ", "0">>
    /\ ev_row[T_qty] = Num(5, 1)
    /\ ev_out = None

-----------------------------------------------------------------------------
(* The header locator on its own (specification SpecLocate): a worksheet   *)
(* whose first rows hold any mix of blank cells, header names and other    *)
(* text has just been opened, and Locate runs on it.                       *)

\* the rows a worksheet's header region is made of: blank, a title, part of a
\* header, a header in either column order, one with a repeated name, a full one
LocRows ==
    LET S == Str(N_sku)
        P == Str(<<" ">> \o N_price \o <<" ">>)
        Q == Str(N_qty)
        X == Str(<<"L","i","s","t">>)
    IN { <<None, None, None>>, <<X, None, None>>, <<S, None, None>>,
         <<S, P, None>>, <<P, S, None>>, <<S, S, P>>, <<Q, S, P>>,
         <<None, Q, None>> }

LocSheets ==
    { [vals |-> [p \in Grid |->
                   IF p[1] <= MaxStart /\ p[2] <= Len(f[p[1]]) THEN f[p[1]][p[2]] ELSE None],
       maxcol |-> SetMax({Len(f[r]) : r \in 1..MaxStart})]
      : f \in [1..MaxStart -> LocRows] }

LocColumnSets ==
    { << Col(N_sku, T_sku), Col(N_price, T_rtl1) >>,
      << Col(<<" ">> \o N_sku, T_sku), Col(N_qty, <<>>), Col(N_price, T_rtl1) >> }

LocInit ==
    /\ impl \in {"libs", "pl"}
    /\ docs = << [name |-> FileName(1), tmpl |-> TplC] >>
    /\ schema_file = "ok"
    /\ \E sr \in 1..MaxStart, cs \in LocColumnSets :
          schemas = << [filename |-> FileName(1), starting_row |-> sr, columns |-> cs] >>
    /\ df_rows = <<>>
    /\ lookup_map = <<>>
    /\ pc = "locate" /\ di = 1
    /\ ws \in LocSheets
    /\ header_row = 0 /\ best_score = -1
    /\ col_map = <<>> /\ write_row = 0 /\ ri = 0 /\ ci = 0
    /\ status = << "Opened" >> /\ copied = {1} /\ nsaves = << 0 >>
    /\ result = << NoResult >>
    /\ EvIdle

LocNext == Locate

SpecLocate == LocInit /\ [][LocNext]_vars

Located == pc \in {"row", "save"}

\* the text of cell (r, c) as the locator reads it
HeaderText(r, c) == CellStr(ws.vals[<<r, c>>])

\* the descriptors whose stripped name is the text of some cell of row r
NamesIn(r) ==
    {i \in 1..Len(schema_columns) :
        \E c \in 1..ws.maxcol : HeaderText(r, c) = Strip(schema_columns[i].columnname)}

\* C2: the located header row is a row of [1, starting_row] whose score (the
\* number of descriptors whose stripped name is among the row's cell texts) is
\* the highest, and the earliest of the rows with that score.
C2_EarliestBestRow ==
    Located =>
        /\ header_row \in 1..starting_row
        /\ best_score = Cardinality(NamesIn(header_row))
        /\ \A r \in 1..starting_row :
              /\ Cardinality(NamesIn(r)) <= best_score
              /\ Cardinality(NamesIn(r)) = best_score => header_row <= r

C2_Witness ==
    /\ Located
    /\ starting_row = 2
    /\ Cardinality(NamesIn(1)) = 2
    /\ Cardinality(NamesIn(2)) = 2
    /\ header_row = 1

\* no cell of rows 1..starting_row holds a descriptor name
BlankHeaderRegion == \A r \in 1..starting_row : NamesIn(r) = {}

\* C3: the positional map (i-th descriptor -> column i) is the column map
\* exactly when no row of [1, starting_row] holds a descriptor name; otherwise
\* the map is read off the located header row (the rightmost cell of each name).
C3_FallbackIffBlank ==
    Located =>
        IF BlankHeaderRegion
        THEN col_map = [name \in {schema_columns[i].columnname : i \in 1..Len(schema_columns)} |->
                          SetMax({i \in 1..Len(schema_columns) : schema_columns[i].columnname = name})]
        ELSE /\ DOMAIN col_map = {schema_columns[i].columnname : i \in NamesIn(header_row)}
             /\ \A name \in DOMAIN col_map :
                   /\ HeaderText(header_row, col_map[name]) = Strip(name)
                   /\ \A c \in 1..ws.maxcol :
                         HeaderText(header_row, c) = Strip(name) => c <= col_map[name]

C3_Witness ==
    /\ Located
    /\ BlankHeaderRegion
    /\ \E c \in 1..ws.maxcol : ws.vals[<<1, c>>] # None
    /\ col_map = (N_sku :> 1) @@ (N_price :> 2)

-----------------------------------------------------------------------------
(* The run: cursor, enrichment, empty expressions, store errors, appended  *)
(* columns.                                                                *)

\* a worksheet of the current file is being populated or is about to be saved
Populating == pc \in {"row", "save"}

\* the sheet as the template had it
Template == SheetOf(docs[di].tmpl)

\* the result rows whose descriptors and enrichment are all done
RowsDone == IF pc = "save" THEN Len(df_rows) ELSE ri - 1

\* C1: the cursor starts at starting_row and is starting_row + k after k result
\* rows, so it ends at starting_row + N; no cell outside the rows
\* starting_row .. starting_row + N - 1 differs from the template.
C1_CursorAdvancesByOne ==
    Populating =>
        /\ write_row = starting_row + RowsDone
        /\ pc = "row" => ri \in 1..Len(df_rows)
        /\ pc = "save" => write_row = starting_row + Len(df_rows)
        /\ \A tv \in {Template.vals}, first \in {starting_row} :
              \A p \in Grid :
                  (p[1] < first \/ p[1] >= first + Len(df_rows))
                     => ws.vals[p] = tv[p]

\* two result rows, the second of which left its row as the template had it
C1_Witness ==
    /\ pc = "save"
    /\ Len(df_rows) = 2
    /\ write_row = starting_row + 2
    /\ \E c \in 1..GridCols :
          ws.vals[<<starting_row, c>>] # Template.vals[<<starting_row, c>>]
    /\ \A c \in 1..GridCols :
          ws.vals[<<starting_row + 1, c>>] = Template.vals[<<starting_row + 1, c>>]

\* C7: in libs/prepare-list.py, for every finished result row whose trimmed key
\* has a record in the lookup index, the cells at the part-id and description
\* positions of its row hold the record's fields, whatever the descriptors wrote.
C7_EnrichmentWins ==
    (Populating /\ impl = "libs") =>
        \A j \in 1..RowsDone :
            LET wr == starting_row + j - 1
                key == EnrichKey(ws, df_rows[j], wr)
            IN (key # <<>> /\ key \in DOMAIN lookup_map) =>
                  /\ ws.vals[<<wr, partid_col_idx>>] = Str(lookup_map[key].partid)
                  /\ ws.vals[<<wr, desc_col_idx>>] = Str(lookup_map[key].description)

C7_Witness ==
    /\ Populating /\ impl = "libs"
    /\ RowsDone >= 1
    /\ schema_columns = ColsA
    /\ N_desc \in DOMAIN col_map /\ col_map[N_desc] = desc_col_idx
    /\ df_rows[1][T_description] = Str(<<"U","N","K","N","O","W","N">>)
    /\ ws.vals[<<starting_row, desc_col_idx>>]
          = Str(<<"A","l","p","h","a"," ","C","o","r","e">>)

C9_StoreErrorsPerDocument ==
    pc \in {"done", "crashed"} =>
        \A i \in 1..Len(docs) :
            (MatchIndex(docs[i].name) # 0 /\ ~(pc = "crashed" /\ i = di))
               => status[i] = "Saved"

\* C10: a descriptor step never changes an entry of the column map; it adds at
\* most the entry of its own descriptor, at max_column + 1; after it the
\* descriptor has a position, and only the cell at that position of the
\* cursor's row may have changed.
C10_AppendOnceThenReuse ==
    [][ ( /\ pc = "row"
          /\ ci <= Len(schema_columns)
          /\ schema_columns[ci].dfcolumnname # <<>> )
        => LET cname == schema_columns[ci].columnname IN
           /\ \A name \in DOMAIN col_map :
                 name \in DOMAIN col_map' /\ col_map'[name] = col_map[name]
           /\ DOMAIN col_map' = DOMAIN col_map \cup {cname}
           /\ cname \notin DOMAIN col_map => col_map'[cname] = ws.maxcol + 1
           /\ \A p \in Grid :
                 p # <<write_row, col_map'[cname]>> => ws'.vals[p] = ws.vals[p] ]_vars

\* the appended column of SKU, written by the first row, is written again by
\* the second
C10_Witness ==
    /\ pc = "row" /\ ri = 2 /\ ci = 2
    /\ schema_columns = ColsB
    /\ docs[di].tmpl = TplA
    /\ col_map[N_sku] = TplA.maxcol + 1
    /\ ws.vals[<<starting_row, col_map[N_sku]>>] = Str(<<"S","3">>)
    /\ ws.vals[<<starting_row + 1, col_map[N_sku]>>] = Str(<<"S","1">>)

\* the columns population may write: the positions of the descriptors whose
\* dfcolumnname is not empty, and the two enrichment targets
WrittenColumns ==
    {col_map[schema_columns[i].columnname] :
        i \in {k \in 1..Len(schema_columns) :
                 /\ schema_columns[k].dfcolumnname # <<>>
                 /\ schema_columns[k].columnname \in DOMAIN col_map}}
    \cup {partid_col_idx, desc_col_idx}

\* C11: while and after a document is populated, every cell outside the rows
\* starting_row .. starting_row + N - 1, and every cell of those rows in a
\* column that is neither the position of a descriptor with a non-empty
\* dfcolumnname nor an enrichment target, holds its template value.
C11_UnrelatedCellsKept ==
    Populating =>
        \A tv \in {Template.vals}, wc \in {WrittenColumns}, first \in {starting_row} :
            \A p \in Grid :
                ( \/ p[1] < first
                  \/ p[1] >= first + Len(df_rows)
                  \/ p[2] \notin wc )
                   => ws.vals[p] = tv[p]

\* the data rows start on the header row itself: the price cell was written
\* over, the cell beside it still holds the template's text
C11_Witness ==
    /\ pc = "save"
    /\ docs[di].tmpl = TplB /\ schema_columns = ColsB
    /\ starting_row = 2 /\ Len(df_rows) >= 1
    /\ 1 \notin WrittenColumns
    /\ ws.vals[<<2, 1>>] = Str(N_desc)
    /\ ws.vals[<<2, 2>>] # Template.vals[<<2, 2>>]

\* no schema entry has the file's normalized relative path as its filename
NoEntryFor(i) ==
    \A k \in 1..Len(schemas) : schemas[k].filename # RelStr(docs[i].name)

\* C12: a file without a schema entry stays Unmatched, is never copied and
\* never saved, and when the loop reaches it the loop moves on to the next file.
C12_UnmatchedUntouched ==
    [][ /\ \A i \in 1..Len(docs) :
              NoEntryFor(i) =>
                 status'[i] = "Unmatched" /\ i \notin copied' /\ nsaves'[i] = 0
        /\ (pc = "file" /\ di <= Len(docs) /\ NoEntryFor(di))
              => (pc' = "file" /\ di' = di + 1 /\ ws' = ws) ]_vars

\* the first file had no entry and the second was populated and saved
C12_Witness ==
    /\ pc = "done"
    /\ NoEntryFor(1) /\ status[1] = "Unmatched" /\ 1 \notin copied /\ nsaves[1] = 0
    /\ ~NoEntryFor(2) /\ status[2] = "Saved"

\* C13: a schema file that is missing or cannot be parsed does not end the run
\* before the loop over the files.
C13_ConfigErrorsNonFatal ==
    schema_file \in {"missing", "unparseable"} => pc \notin {"exit3", "aborted"}

\* the descriptors of the current row are done and the lookup index has no
\* record for the row's key (or the row has no key)
LookupMiss ==
    /\ pc = "row" /\ impl = "libs" /\ ci > Len(schema_columns)
    /\ LET key == EnrichKey(ws, df_rows[ri], write_row)
       IN key = <<>> \/ key \notin DOMAIN lookup_map

\* C14: in libs/prepare-list.py, the end of a row whose key has no record in
\* the lookup index changes no cell value, and the cursor advances by 1 to the
\* next row.
C14_LookupMissNoOp ==
    [][ LookupMiss =>
          /\ ws'.vals = ws.vals
          /\ write_row' = write_row + 1
          /\ ri' = ri + 1
          /\ pc' \in {"row", "save"} ]_vars

\* without a lookup table, the description the first row's descriptor wrote is
\* still there when the second row starts
C14_Witness ==
    /\ pc = "row" /\ impl = "libs" /\ lookup_map = <<>>
    /\ ri = 2 /\ ci = 1 /\ write_row = starting_row + 1
    /\ schema_columns = ColsA
    /\ col_map[N_desc] = desc_col_idx
    /\ ws.vals[<<starting_row, desc_col_idx>>] = Str(<<"U","N","K","N","O","W","N">>)

\* the changes of a file's state that the run may make
StatusSteps ==
    { <<"Unmatched", "Opened">>, <<"Opened", "HeaderLocated">>,
      <<"HeaderLocated", "Populating">>, <<"Populating", "Saved">> }

\* C15: a file's state only moves along Unmatched, (opened,) HeaderLocated,
\* Populating, Saved -- Populating being passed over only by an empty result
\* set; the file is saved at most once, by a step taken when the cursor has
\* passed the last result row; no cell is written in a saved file; and when the
\* loop over the files ends every matched file has been saved exactly once.
C15_SavedOnceAfterLastRow ==
    [][ /\ \A i \in 1..Len(docs) :
            /\ status'[i] # status[i] =>
                  \/ <<status[i], status'[i]>> \in StatusSteps
                  \/ <<status[i], status'[i]>> = <<"HeaderLocated", "Saved">>
                        /\ df_rows = <<>>
            /\ nsaves'[i] # nsaves[i] =>
                  /\ i = di /\ nsaves[i] = 0 /\ nsaves'[i] = 1
                  /\ status'[i] = "Saved"
                  /\ write_row = starting_row + Len(df_rows)
                  /\ ws' = ws
        /\ ws' # ws => (di <= Len(docs) /\ status[di] # "Saved" /\ nsaves[di] = 0)
        /\ pc' = "done" =>
              \A i \in 1..Len(docs) :
                  ~NoEntryFor(i) => (status'[i] = "Saved" /\ nsaves'[i] = 1) ]_vars

\* both files were populated with two rows and saved once each
C15_Witness ==
    /\ pc = "done"
    /\ Len(df_rows) = 2
    /\ \A i \in 1..Len(docs) : status[i] = "Saved" /\ nsaves[i] = 1
    /\ write_row = schemas[1].starting_row + 2

\* the value the running copy computes for a descriptor from the k-th result row
ValueFrom(col, k) ==
    IF impl = "libs" THEN LibsValue(col.dfcolumnname, df_rows[k])
    ELSE PLValue(col.dfcolumnname, df_rows[k])

\* C16: the step of a descriptor of the k-th result row writes the value
\* computed from that row into destination row starting_row + k - 1, and the
\* rows are taken one after the other in the result set's order.
C16_OrderPreserved ==
    [][ /\ ( /\ pc = "row"
             /\ ci <= Len(schema_columns)
             /\ schema_columns[ci].dfcolumnname # <<>> )
           => LET col == schema_columns[ci]
                  v == ValueFrom(col, ri)
              IN /\ write_row = starting_row + ri - 1
                 /\ ri' = ri
                 /\ v # None =>
                       ws'.vals[<<starting_row + ri - 1, col_map'[col.columnname]>>] = v
        /\ (pc = "row" /\ ri' # ri) => (ri' = ri + 1 /\ write_row' = write_row + 1) ]_vars

\* the descriptions of two result rows, in the rows below one another in the
\* result set's order
C16_Witness ==
    /\ pc = "save" /\ lookup_map = <<>>
    /\ schema_columns = ColsA /\ docs[di].tmpl = TplA
    /\ Len(df_rows) = 2
    /\ df_rows[1][T_description] = Str(<<"d">>)
    /\ df_rows[2][T_description] = Str(<<"U","N","K","N","O","W","N">>)
    /\ ws.vals[<<starting_row, 3>>] = Str(<<"d">>)
    /\ ws.vals[<<starting_row + 1, 3>>] = Str(<<"U","N","K","N","O","W","N">>)

\* the schema entry of file i
EntryOf(i) == schemas[MatchIndex(docs[i].name)]

\* files i and j are copies of the same template, populated under schema
\* entries with the same starting_row and columns (the result set and the
\* lookup index are those of the run)
SameInputs(i, j) ==
    /\ docs[i].tmpl = docs[j].tmpl
    /\ EntryOf(i).starting_row = EntryOf(j).starting_row
    /\ EntryOf(i).columns = EntryOf(j).columns

\* C17: two populations of fresh copies of the same template, with the same
\* schema entry, result set and lookup index, save worksheets with the same
\* value in every cell, and end with the same column map and the same cursor.
C17_SameInputsSameOutput ==
    \A i, j \in 1..Len(docs) :
        (nsaves[i] = 1 /\ nsaves[j] = 1 /\ SameInputs(i, j)) => result[i] = result[j]

\* two copies of the header template, each with an appended column and two rows
C17_Witness ==
    /\ pc = "done"
    /\ nsaves[1] = 1 /\ nsaves[2] = 1 /\ SameInputs(1, 2)
    /\ docs[1].tmpl = TplA /\ EntryOf(1).columns = ColsB
    /\ Len(df_rows) = 2
    /\ result[1].sheet.vals # SheetOf(TplA).vals
    /\ N_sku \in DOMAIN result[2].col_map /\ result[2].col_map[N_sku] = TplA.maxcol + 1
    /\ result[2] = result[1]

\* a value a cell can be given: None, NaN, a number or text
IsValue(v) ==
    /\ v.t \in {"none", "nan", "num", "str"}
    /\ v.t = "num" => v.d > 0

\* C18: whatever the expression text (malformed brackets, an operand or a
\* field value that is no number, a field the row lacks, a division by a zero
\* literal) and the row, both copies end the evaluation with a value or with
\* None: no exception leaves the evaluator.
C18_EvaluationNeverRaises ==
    ev_pc = "done" => IsValue(ev_out)

\* a division by the literal 0: the ZeroDivisionError is caught and the field's
\* value is the outcome
C18_Witness ==
    /\ ev_pc = "done" /\ ev_impl = "pl"
    /\ ev_expr = Bracket(T_rtl1) \o <<"/", "0">>
    /\ T_rtl1 \in DOMAIN ev_row /\ ev_row[T_rtl1] = Num(90, 1)
    /\ ev_out = Num(90, 1)

\* what a blank cell never holds: a NaN number, or the text of None or of NaN
NotBlank ==
    { NaN, Str(<<"N","o","n","e">>), Str(<<"N","a","N">>), Str(<<"n","a","n">>) }

\* C19: when the value computed for a descriptor is absent (None, or the NaN of
\* a NULL field), the cell the descriptor's step writes holds neither a NaN
\* number nor the text "None" or "NaN".
C19_AbsentWrittenBlank ==
    [][ ( /\ pc = "row"
          /\ ci <= Len(schema_columns)
          /\ schema_columns[ci].dfcolumnname # <<>>
          /\ IsAbsent(ValueFrom(schema_columns[ci], ri)) )
        => ws'.vals[<<write_row, col_map'[schema_columns[ci].columnname]>>]
              \notin NotBlank ]_vars

\* C20: when the expression text, or its lowercase form, is a field name of the
\* row, the outcome is that field's value -- also when the text contains "*".
C20_DirectFieldFirst ==
    ev_pc = "done" =>
        /\ ev_expr \in DOMAIN ev_row => ev_out = ev_row[ev_expr]
        /\ (ev_expr \notin DOMAIN ev_row /\ Lower(ev_expr) \in DOMAIN ev_row)
              => ev_out = ev_row[Lower(ev_expr)]

\* C21: in libs/prepare-list.py, a product of three fields that are numbers
\* other than zero is the product of the three, and a product whose right side
\* is "[F] op k" is the left value times (F op k).
C21_CompositeRecursive ==
    ( /\ ev_pc = "done" /\ ev_impl = "libs"
      /\ ev_shape.kind \in {"chain", "prodop"}
      /\ IsNum(FieldOf(ev_row, ev_shape.f)) /\ ~IsZero(FieldOf(ev_row, ev_shape.f))
      /\ IsNum(FieldOf(ev_row, ev_shape.g)) /\ ~IsZero(FieldOf(ev_row, ev_shape.g)) )
    => LET l == FieldOf(ev_row, ev_shape.f)
           r == FieldOf(ev_row, ev_shape.g)
       IN ev_out = IF ev_shape.kind = "chain"
                   THEN Arith("*", Arith("*", l, r), l)
                   ELSE Arith("*", l, Arith(ev_shape.op, r, ev_shape.k))

\* the columns of row r whose cell text is the stripped name
CellsNamed(r, name) == {c \in 1..ws.maxcol : HeaderText(r, c) = Strip(name)}

\* C22: when a header row is located (best score above 0), a descriptor whose
\* stripped name is the text of some cell of that row is mapped to the
\* rightmost such cell, and a descriptor whose name is in no cell of the row has
\* no entry in the map the locator builds.
C22_RightmostHeaderCell ==
    (Located /\ ri = 1 /\ ci = 1 /\ header_row # 0 /\ best_score > 0) =>
        \A i \in 1..Len(schema_columns) :
            LET name == schema_columns[i].columnname
                hits == CellsNamed(header_row, name)
            IN IF hits = {} THEN name \notin DOMAIN col_map
               ELSE /\ name \in DOMAIN col_map
                    /\ col_map[name] \in hits
                    /\ \A c \in hits : c <= col_map[name]

\* a header row with the same name in two cells, and a descriptor it lacks
C22_Witness ==
    /\ Located /\ ri = 1 /\ ci = 1 /\ header_row # 0
    /\ Len(schema_columns) = 3
    /\ CellsNamed(header_row, N_sku) = {1, 2}
    /\ col_map[schema_columns[1].columnname] = 2
    /\ N_qty \notin DOMAIN col_map
    /\ N_price \in DOMAIN col_map /\ col_map[N_price] = 3

\* the stripped text of the key cell of the cursor's row, <<>> for a blank cell
KeyFromCell ==
    IF ws.vals[<<write_row, key_idx>>] = None THEN <<>>
    ELSE Strip(PyStr(ws.vals[<<write_row, key_idx>>]))

\* the stripped text of the current result row's partid, <<>> when it has none
KeyFromRow ==
    IF T_partid \in DOMAIN df_rows[ri] /\ Truthy(df_rows[ri][T_partid])
    THEN Strip(PyStr(df_rows[ri][T_partid]))
    ELSE <<>>

\* C23: in libs/prepare-list.py, at the end of a row the enrichment key is the
\* stripped text of the key cell of the row just written, or, when that is
\* empty, the stripped partid of the result row; a record of the lookup index
\* under that key is written to the part-id and description cells, and with no
\* key at all, or no record under it, no cell changes.
C23_KeyFromCellThenRow ==
    [][ (pc = "row" /\ impl = "libs" /\ ci > Len(schema_columns)) =>
          LET key == IF KeyFromCell # <<>> THEN KeyFromCell ELSE KeyFromRow
          IN IF key # <<>> /\ key \in DOMAIN lookup_map
             THEN /\ ws'.vals[<<write_row, partid_col_idx>>] = Str(lookup_map[key].partid)
                  /\ ws'.vals[<<write_row, desc_col_idx>>]
                        = Str(lookup_map[key].description)
             ELSE ws'.vals = ws.vals ]_vars

\* the key cell of the first row was left blank and the row's partid found the
\* record
C23_Witness ==
    /\ Populating /\ impl = "libs" /\ RowsDone >= 1
    /\ ws.vals[<<starting_row, key_idx>>] = None
    /\ df_rows[1][T_partid] = Str(<<"P","2">>)
    /\ <<"P","2">> \in DOMAIN lookup_map
    /\ ws.vals[<<starting_row, desc_col_idx>>] = Str(<<"B","e","t","a">>)

\* C24: the files are taken one at a time -- while one is processed the files
\* before it that have a schema entry are saved and the files after it are
\* untouched -- and the locate step of a file sets the cursor to the file's own
\* starting_row and leaves in the column map only entries read off this file's
\* header row or, without one, the positions of the schema order: nothing of the
\* map of the file before.
C24_DocumentsIndependent ==
    [][ /\ (pc \in {"locate", "row", "save"}) =>
              \A i \in 1..Len(docs) :
                  /\ i > di => (status[i] = "Unmatched" /\ nsaves[i] = 0 /\ i \notin copied)
                  /\ (i < di /\ ~NoEntryFor(i)) => (status[i] = "Saved" /\ nsaves[i] = 1)
        /\ pc = "locate" =>
              /\ write_row' = starting_row
              /\ \A name \in DOMAIN col_map' :
                    IF header_row' # 0 /\ best_score' > 0
                    THEN HeaderText(header_row', col_map'[name]) = Strip(name)
                    ELSE /\ col_map'[name] \in 1..Len(schema_columns)
                         /\ schema_columns[col_map'[name]].columnname = name ]_vars

\* the first file had a column appended; the second starts without it
C24_Witness ==
    /\ Populating /\ di = 2 /\ ri = 1 /\ ci = 1
    /\ status[1] = "Saved"
    /\ N_sku \in DOMAIN result[1].col_map
    /\ result[1].col_map[N_sku] = TplA.maxcol + 1
    /\ docs[2].tmpl = TplB
    /\ N_sku \notin DOMAIN col_map
    /\ write_row = starting_row

\* C25: when a header row is located (best score above 0) and the result set
\* has a row, the header row lies above the first row written.
C25_HeaderRowNotWritten ==
    (Populating /\ header_row # 0 /\ best_score > 0 /\ Len(df_rows) >= 1)
        => header_row < starting_row

\* the columns the position map gives the descriptors other than the part-id
\* and description descriptors
OtherDescriptorColumns ==
    {col_map[n] : n \in DOMAIN col_map \ {N_pid, N_desc}}

\* C26: in libs/prepare-list.py, a lookup hit at the end of a row leaves the
\* cell of every descriptor other than the part-id and description descriptors
\* as the descriptor wrote it: the record's fields go to the columns the
\* position map gives the part-id and description descriptors.
C26_EnrichmentUsesMappedColumns ==
    [][ ( /\ pc = "row" /\ impl = "libs" /\ ci > Len(schema_columns)
          /\ ~LookupMiss )
        => \A c \in OtherDescriptorColumns :
              ws'.vals[<<write_row, c>>] = ws.vals[<<write_row, c>>] ]_vars

\* no two names of the map cm with distinct stripped texts share a column
Injective(cm) ==
    \A a, b \in DOMAIN cm : Strip(a) # Strip(b) => cm[a] # cm[b]

\* C27: while a document is populated the position map gives descriptors with
\* distinct stripped names distinct columns; a descriptor step that appends a
\* column takes an index above every index of the map, and it leaves the cells
\* of the other descriptors in the cursor's row as they were.
C27_PositionMapInjective ==
    [][ /\ pc = "row" => Injective(col_map)
        /\ ( /\ pc = "row" /\ ci <= Len(schema_columns)
             /\ (impl = "libs" \/ schema_columns[ci].dfcolumnname # <<>>) )
           => LET cname == schema_columns[ci].columnname IN
              /\ Injective(col_map')
              /\ cname \notin DOMAIN col_map =>
                    \A n \in DOMAIN col_map : col_map'[cname] > col_map[n]
              /\ \A n \in DOMAIN col_map' :
                    Strip(n) # Strip(cname) =>
                       ws'.vals[<<write_row, col_map'[n]>>]
                          = ws.vals[<<write_row, col_map'[n]>>] ]_vars

\* SKU and Qty, neither in the header row, are appended during the first row
\* at the two columns after the template's last, and SKU's cell keeps its value
C27_Witness ==
    /\ pc = "row" /\ impl = "libs" /\ ri = 1 /\ ci = 3
    /\ schema_columns = ColsB /\ docs[di].tmpl = TplA
    /\ header_row # 0 /\ best_score > 0
    /\ col_map[N_price] = 4
    /\ col_map[N_sku] = TplA.maxcol + 1
    /\ col_map[N_qty] = TplA.maxcol + 2
    /\ ws.vals[<<write_row, col_map[N_sku]>>] = df_rows[1][T_sku]
    /\ df_rows[1][T_sku] # None

\* C28: in libs/prepare-list.py, a lookup hit at the end of a row puts the text
\* "None" neither into the part-id cell nor into the description cell of the
\* row, whether or not the CSV row of the key had those fields.
C28_NoNoneTextFromLookup ==
    [][ ( /\ pc = "row" /\ impl = "libs" /\ ci > Len(schema_columns)
          /\ ~LookupMiss )
        => /\ ws'.vals[<<write_row, partid_col_idx>>] # Str(<<"N","o","n","e">>)
           /\ ws'.vals[<<write_row, desc_col_idx>>] # Str(<<"N","o","n","e">>) ]_vars

\* the value the copy that is not running computes for a descriptor and a row
OtherCopyValue(col, row) ==
    IF impl = "libs" THEN PLValue(col.dfcolumnname, row)
    ELSE LibsValue(col.dfcolumnname, row)

\* C29: with an empty lookup index, the step of a descriptor with an expression
\* leaves in every cell the value the other copy of the command leaves there
\* for the same sheet, position map, descriptor and result row.
C29_CopiesEquivalent ==
    [][ ( /\ pc = "row" /\ ci <= Len(schema_columns)
          /\ lookup_map = <<>>
          /\ schema_columns[ci].dfcolumnname # <<>> )
        => LET col == schema_columns[ci]
               other == CellWrite(ws, write_row,
                                  ColIdx(col_map, col.columnname, ws),
                                  OtherCopyValue(col, df_rows[ri]))
           IN ws'.vals = other.vals ]_vars

=============================================================================
